---- MODULE Spec2Model ----
(***************************************************************************)
(* Verification model of subtitle-tool: the timeline merger and validator  *)
(* (src/src/subtitle_tool/subtitles.py), the retry policy around the       *)
(* transcription call (src/src/subtitle_tool/ai.py) and the concurrent     *)
(* dispatch of chunks.                                                     *)
(*                                                                         *)
(* Three state machines share the variables; each has its own              *)
(* specification: MergeSpec, RetrySpec (RetryLiveSpec with fairness) and   *)
(* DispatchSpec.                                                           *)
(*                                                                         *)
(* Numbers.  Cue timestamps are Python ints (milliseconds).  A duration is *)
(* a Python float; it is modelled as a non-negative rational, stored as    *)
(* its numerator over the fixed denominator DurationDenominator, so that   *)
(* int(duration) and duration * 1000 are computed exactly.                 *)
(***************************************************************************)
EXTENDS Integers, Sequences, FiniteSets, TLC

VARIABLES
    \* ---- merge_subtitle_events and its caller
    subtitle_groups,    \* list[list[SubtitleEvent]]: the objects the caller holds
    segment_durations,  \* list[float], as numerators
    pre_groups,         \* subtitle_groups as they were when merge was last called
    merge_phase,        \* "build" | "merged" | "remerged"
    merge_outcome,      \* what the last call of merge did
    first_outcome,      \* what the first call of merge did
    \* ---- AISubtitler._audio_to_subtitles / _generate_subtitles for one chunk
    retry_pc,           \* "ATTEMPT" | "WAIT" | "DONE" | "FAIL"
    attempt_number,     \* tenacity attempt_number of _generate_subtitles
    generation,         \* tenacity attempt_number of _audio_to_subtitles
    calls,              \* external generate_content calls made so far
    last_exc,           \* exception of the outcome of the attempt, if it failed
    sleep,              \* wait chosen before the next attempt
    surfaced,           \* what transcription raised to its caller
    transcript,         \* what transcription returned
    parsed,             \* response.parsed of the last call, when it returned
    chunk_duration,     \* audio_segment.duration_seconds, as numerator
    \* ---- dispatch of the chunks over the worker pool
    chunk_state,        \* per chunk: "queued" | "running" | "done" | "failed" | "cancelled"
    slots,              \* per chunk: what its call returned or raised
    completed,          \* chunk indices in the order their calls ended
    cursor,             \* results the caller has taken so far
    dispatch_outcome,   \* what the caller of dispatch has: kind, value, chunk
    worker_count,       \* size of the worker pool
    \* ---- SubtitleBalancer.balance_subtitles and its caller
    subs,               \* the cues handed to balance_subtitles
    new_subs,           \* what balance_subtitles did
    max_words_per_screen,
    min_duration_ms,
    balance_phase,      \* "build" | "balanced"
    \* ---- AISubtitler.transcribe_audio / upload_audio for one chunk
    upload_pc,          \* "EXPORT" | "UPLOAD" | "BODY" | "END"
    file_ref,           \* name of the uploaded file, "none" before the upload
    delete_calls,       \* calls of client.files.delete made so far
    warnings,           \* warnings _remove_file logged
    transcribe_outcome  \* what transcribe_audio did

merge_vars == <<subtitle_groups, segment_durations, pre_groups, merge_phase,
                merge_outcome, first_outcome>>
retry_vars == <<retry_pc, attempt_number, generation, calls, last_exc, sleep,
                surfaced, transcript, parsed, chunk_duration>>
dispatch_vars == <<chunk_state, slots, completed, cursor, dispatch_outcome,
                   worker_count>>
balance_vars == <<subs, new_subs, max_words_per_screen, min_duration_ms,
                  balance_phase>>
upload_vars == <<upload_pc, file_ref, delete_calls, warnings, transcribe_outcome>>
vars == <<merge_vars, retry_vars, dispatch_vars, balance_vars, upload_vars>>

----------------------------------------------------------------------------
(* Bounds of the model *)

\* chunks (and declared durations) handed to merge or to dispatch
MaxChunks == 3
\* cues in all chunk timelines of one merge together
MaxCues == 2
\* denominator of the rationals that stand for float durations
DurationDenominator == 2
\* largest worker pool
MaxWorkers == 2
\* characters in the text of a cue handed to the balancer
MaxAtoms == 5
\* largest timestamp of a cue handed to the balancer
MaxTime == 2

(* Program constants *)

\* validate_subtitles: duration * 1000
MsPerSecond == 1000

(* Input values *)

\* chunk-local timestamps a cue may carry
Times == {0, 1}
\* numerators of the chunk durations (0, 1/2 and 3/2 with denominator 2)
DurationNumerators == {0, 1, 3}

----------------------------------------------------------------------------
(* Helpers *)

Min(a, b) == IF a <= b THEN a ELSE b

RECURSIVE SumSeq(_)
SumSeq(s) == IF s = <<>> THEN 0 ELSE s[1] + SumSeq(Tail(s))

RECURSIVE Flatten(_)
Flatten(ss) == IF ss = <<>> THEN <<>> ELSE ss[1] \o Flatten(Tail(ss))

TotalCues(groups) == Len(Flatten(groups))

----------------------------------------------------------------------------
(* subtitles.py *)

SubtitleEvent(s, e, t) == [start |-> s, end |-> e, text |-> t]

\* The results of a call: it returned a value, or raised an exception of a
\* class (with what the message names: the rule and the index).
Returned(v) == [raised |-> "none", value |-> v]
Raised(cls, why, at) == [raised |-> cls, value |-> <<why, at>>]

\* index (1-based) of the first cue the loop of validate_subtitles rejects, 0 if none
\* a validator that takes a cue starting where the previous one ends for an
\* overlap
FirstBadIndex_RejectsAdjacent(subtitles) ==
    LET bad(i) == \/ subtitles[i].start > subtitles[i].end
                  \/ i > 1 /\ subtitles[i].start <= subtitles[i - 1].end
        S == {i \in 1..Len(subtitles) : bad(i)}
    IN IF S = {} THEN 0 ELSE CHOOSE i \in S : \A k \in S : i <= k

FirstBadIndex(subtitles) ==
    LET bad(i) == \/ subtitles[i].start > subtitles[i].end
                  \/ i > 1 /\ subtitles[i].start < subtitles[i - 1].end
        S == {i \in 1..Len(subtitles) : bad(i)}
    IN IF S = {} THEN 0 ELSE CHOOSE i \in S : \A k \in S : i <= k

\* end > duration * 1000, the duration being numerator / DurationDenominator
EndsAfter(end, duration) == end * DurationDenominator > duration * MsPerSecond

\* a validator that looks at the cues one by one before it looks at the
\* end of the last cue
validate_subtitles_LoopFirst(subtitles, duration) ==
    IF subtitles = <<>>
    THEN Raised("IndexError", "subtitles[-1]", 0)
    ELSE LET i == FirstBadIndex(subtitles)
         IN IF i # 0 /\ subtitles[i].start > subtitles[i].end
            THEN Raised("Exception", "starts after its end", i - 1)
            ELSE IF i # 0
            THEN Raised("Exception", "overlaps", i - 1)
            ELSE IF EndsAfter(subtitles[Len(subtitles)].end, duration)
            THEN Raised("Exception", "ends after", Len(subtitles) - 1)
            ELSE Returned(<<>>)

validate_subtitles(subtitles, duration) ==
    IF subtitles = <<>>
    THEN Raised("IndexError", "subtitles[-1]", 0)
    ELSE IF EndsAfter(subtitles[Len(subtitles)].end, duration)
    THEN Raised("Exception", "ends after", Len(subtitles) - 1)
    ELSE LET i == FirstBadIndex(subtitles)
         IN IF i = 0 THEN Returned(<<>>)
            ELSE IF subtitles[i].start > subtitles[i].end
            THEN Raised("Exception", "starts after its end", i - 1)
            ELSE Raised("Exception", "overlaps", i - 1)

\* int(duration)
IntOf(duration) == duration \div DurationDenominator

\* a merge that sets the shift to the last duration instead of accumulating it
NextTimeShift_NotAccumulated(time_shift, duration) == IntOf(duration)

\* time_shift += int(duration)
NextTimeShift(time_shift, duration) == time_shift + IntOf(duration)

\* time_shift when the loop of merge reaches group `index` (1-based)
RECURSIVE TimeShiftAt(_, _)
TimeShiftAt(durations, index) ==
    IF index = 1 THEN 0
    ELSE NextTimeShift(TimeShiftAt(durations, index - 1), durations[index - 1])

\* a merge that moves the start of a cue and leaves its end
ShiftEvent_StartOnly(event, time_shift) ==
    [event EXCEPT !.start = @ + time_shift]

\* event.start += time_shift; event.end += time_shift
ShiftEvent(event, time_shift) ==
    [event EXCEPT !.start = @ + time_shift, !.end = @ + time_shift]

\* the groups the loop of merge gets through before it ends or raises
Processed(groups, durations) == Min(Len(groups), Len(durations))

\* a merge whose shift advances only past chunks that hold a cue
GroupsAfterMerge_SkipEmpty(groups, durations) ==
    LET shift[i \in 1..(Len(groups) + 1)] ==
            IF i = 1 THEN 0
            ELSE shift[i - 1]
                 + (IF groups[i - 1] = <<>> \/ i - 1 > Len(durations) THEN 0
                    ELSE IntOf(durations[i - 1]))
    IN IF durations = <<>> THEN groups
       ELSE [i \in 1..Len(groups) |->
               IF i <= Processed(groups, durations)
               THEN [j \in 1..Len(groups[i]) |-> ShiftEvent(groups[i][j], shift[i])]
               ELSE groups[i]]

\* the caller's objects after merge ran: the loop shifts the events in place
GroupsAfterMerge(groups, durations) ==
    IF durations = <<>> THEN groups
    ELSE [i \in 1..Len(groups) |->
            IF i <= Processed(groups, durations)
            THEN [j \in 1..Len(groups[i]) |->
                    ShiftEvent(groups[i][j], TimeShiftAt(durations, i))]
            ELSE groups[i]]

merge_subtitle_events(groups, durations) ==
    IF durations = <<>>
    THEN Raised("TypeError", "reduce() of empty iterable", 0)
    ELSE IF Len(groups) > Len(durations)
    THEN Raised("IndexError", "segment_durations[index]", Len(durations))
    ELSE LET all_events == Flatten(GroupsAfterMerge(groups, durations))
             checked == validate_subtitles(all_events, SumSeq(durations))
         IN IF checked.raised = "none" THEN Returned(all_events) ELSE checked

NoOutcome == [raised |-> "not called", value |-> <<>>]

----------------------------------------------------------------------------
(* The caller of merge: it collects chunk timelines and durations, then    *)
(* merges, and may merge the objects it holds a second time.               *)

MergeInit ==
    /\ subtitle_groups = <<>>
    /\ segment_durations = <<>>
    /\ pre_groups = <<>>
    /\ merge_phase = "build"
    /\ merge_outcome = NoOutcome
    /\ first_outcome = NoOutcome

AddGroup ==
    /\ merge_phase = "build"
    /\ Len(subtitle_groups) < MaxChunks
    /\ subtitle_groups' = Append(subtitle_groups, <<>>)
    /\ UNCHANGED <<segment_durations, pre_groups, merge_phase, merge_outcome,
                   first_outcome, retry_vars, dispatch_vars,
                   balance_vars, upload_vars>>

AddEvent ==
    /\ merge_phase = "build"
    /\ subtitle_groups # <<>>
    /\ TotalCues(subtitle_groups) < MaxCues
    /\ \E s \in Times, e \in Times :
         LET i == Len(subtitle_groups)
             j == Len(subtitle_groups[i]) + 1
         IN subtitle_groups' =
              [subtitle_groups EXCEPT ![i] = Append(@, SubtitleEvent(s, e, <<i, j>>))]
    /\ UNCHANGED <<segment_durations, pre_groups, merge_phase, merge_outcome,
                   first_outcome, retry_vars, dispatch_vars,
                   balance_vars, upload_vars>>

AddDuration ==
    /\ merge_phase = "build"
    /\ Len(segment_durations) < MaxChunks
    /\ \E d \in DurationNumerators :
         segment_durations' = Append(segment_durations, d)
    /\ UNCHANGED <<subtitle_groups, pre_groups, merge_phase, merge_outcome,
                   first_outcome, retry_vars, dispatch_vars,
                   balance_vars, upload_vars>>

Merge ==
    /\ merge_phase \in {"build", "merged"}
    /\ pre_groups' = subtitle_groups
    /\ merge_outcome' = merge_subtitle_events(subtitle_groups, segment_durations)
    /\ subtitle_groups' = GroupsAfterMerge(subtitle_groups, segment_durations)
    /\ first_outcome' = IF merge_phase = "build" THEN merge_outcome' ELSE first_outcome
    /\ merge_phase' = IF merge_phase = "build" THEN "merged" ELSE "remerged"
    /\ UNCHANGED <<segment_durations, retry_vars, dispatch_vars,
                   balance_vars, upload_vars>>

MergeNext == AddGroup \/ AddEvent \/ AddDuration \/ Merge

----------------------------------------------------------------------------
(* ai.py: the failures of the external call                                *)
(*                                                                         *)
(* An exception is a record: its class, its HTTP code, and `details`, the  *)
(* response JSON the google.genai APIError keeps.  has_error_details says  *)
(* whether details["error"]["details"] exists; items is that list.  A      *)
(* string is a sequence of characters; a quotaId is a sequence of the      *)
(* words it is made of, and `"PerDay" in quotaId` looks for the word.      *)

DEFAULT_WAIT_TIME == 15

\* stop_after_attempt(30) of _generate_subtitles
MaxAttempts == 30
\* stop_after_attempt(50) of _audio_to_subtitles
MaxGenerations == 50

NoDetails == [has_error_details |-> FALSE, items |-> <<>>]
Exc(cls, code, details, why, at) ==
    [cls |-> cls, code |-> code, details |-> details, why |-> why, at |-> at]
NoExc == Exc("none", 0, NoDetails, "", 0)

QuotaIdPerDay == <<"GenerateRequests", "PerDay", "PerProject", "PerModel-FreeTier">>
QuotaIdPerMinute == <<"GenerateRequests", "PerMinute", "PerProject", "PerModel-FreeTier">>

PerDayViolation == [has_quotaId |-> TRUE, quotaId |-> QuotaIdPerDay]
PerMinuteViolation == [has_quotaId |-> TRUE, quotaId |-> QuotaIdPerMinute]
\* a violation that names a metric and no quotaId
NoIdViolation == [has_quotaId |-> FALSE, quotaId |-> <<>>]

ViolationLists ==
    {<<>>, <<PerDayViolation>>, <<PerMinuteViolation>>, <<NoIdViolation>>,
     <<PerMinuteViolation, PerDayViolation>>, <<NoIdViolation, PerDayViolation>>}

\* retryDelay values: "33s", "7s", "xs" (no number), "" (absent)
RetryDelays == {<<"3", "3", "s">>, <<"7", "s">>, <<"x", "s">>, <<>>}

QuotaFailures ==
    {[type |-> "QuotaFailure", has_violations |-> TRUE, violations |-> v,
      retryDelay |-> <<>>] : v \in ViolationLists}
    \cup {[type |-> "QuotaFailure", has_violations |-> FALSE, violations |-> <<>>,
           retryDelay |-> <<>>]}

RetryInfos ==
    {[type |-> "RetryInfo", has_violations |-> FALSE, violations |-> <<>>,
      retryDelay |-> d] : d \in RetryDelays}

Help == [type |-> "Help", has_violations |-> FALSE, violations |-> <<>>,
         retryDelay |-> <<>>]

\* details["error"]["details"]: missing, empty, one entry, a QuotaFailure
\* followed by a RetryInfo, or two RetryInfo
DetailsValues ==
    {NoDetails}
    \cup {[has_error_details |-> TRUE, items |-> l] :
            l \in {<<>>} \cup {<<x>> : x \in QuotaFailures \cup RetryInfos \cup {Help}}
                  \cup {<<q, r>> : q \in QuotaFailures, r \in RetryInfos}
                  \cup {<<r, q>> : r \in RetryInfos, q \in RetryInfos}}

\* what client.models.generate_content may raise
Errors ==
    {Exc(k[1], k[2], d, "", 0) :
        k \in {<<"ClientError", 429>>, <<"ClientError", 403>>,
               <<"ServerError", 500>>, <<"ServerError", 503>>},
        d \in DetailsValues}
    \cup {Exc("Exception", 0, NoDetails, "Generic Exception", 0)}

\* "PerDay" in violation["quotaId"]
Contains(quotaId, word) == \E n \in 1..Len(quotaId) : quotaId[n] = word

\* for violation in detail.get("violations"): "PerDay", a raised class, or
\* "none" when the loop ends
RECURSIVE ScanViolations(_)
ScanViolations(violations) ==
    IF violations = <<>> THEN "none"
    ELSE IF ~violations[1].has_quotaId THEN "KeyError"
    ELSE IF Contains(violations[1].quotaId, "PerDay") THEN "PerDay"
    ELSE ScanViolations(Tail(violations))

\* for detail in details
RECURSIVE ScanDetails(_)
ScanDetails(items) ==
    IF items = <<>> THEN "none"
    ELSE IF items[1].type # "QuotaFailure" THEN ScanDetails(Tail(items))
    ELSE IF ~items[1].has_violations THEN "TypeError"
    ELSE LET found == ScanViolations(items[1].violations)
         IN IF found = "none" THEN ScanDetails(Tail(items)) ELSE found

is_recoverable_exception(exception) ==
    IF exception.cls = "ClientError" /\ exception.code = 429
    THEN IF ~exception.details.has_error_details
         THEN Raised("KeyError", "error", 0)
         ELSE LET found == ScanDetails(exception.details.items)
              IN CASE found = "none" -> Returned(TRUE)
                   [] found = "PerDay" -> Returned(FALSE)
                   [] found = "KeyError" -> Raised("KeyError", "quotaId", 0)
                   [] OTHER -> Raised("TypeError", "'NoneType' object is not iterable", 0)
    ELSE Returned(TRUE)

\* a retry predicate that takes every ClientError for recoverable
retry_handler_AnyClientError(exception) ==
    Returned(exception.cls \in {"ServerError", "ClientError"})

retry_handler(exception) ==
    IF exception.cls = "ServerError" THEN Returned(TRUE)
    ELSE IF exception.cls = "ClientError" THEN is_recoverable_exception(exception)
    ELSE Returned(FALSE)

Digits == <<"0", "1", "2", "3", "4", "5", "6", "7", "8", "9">>
IsDigit(c) == \E n \in 1..10 : Digits[n] = c
DigitValue(c) == (CHOOSE n \in 1..10 : Digits[n] = c) - 1

\* float(text) for the texts of RetryDelays: the number a row of digits
\* writes, -1 for the ValueError of any other text
RECURSIVE ParseFloat(_)
ParseFloat(text) ==
    IF text = <<>> \/ ~IsDigit(text[Len(text)]) THEN -1
    ELSE IF Len(text) = 1 THEN DigitValue(text[1])
    ELSE LET high == ParseFloat(SubSeq(text, 1, Len(text) - 1))
         IN IF high = -1 THEN -1 ELSE high * 10 + DigitValue(text[Len(text)])

EndsWith(text, c) == text # <<>> /\ text[Len(text)] = c

\* the loop of extract_retry_delay: the delay returned, -1 when the loop
\* raises (caught by the except), -2 when it ends without returning
RECURSIVE ScanRetryInfo(_)
ScanRetryInfo(items) ==
    IF items = <<>> THEN -2
    ELSE IF items[1].type = "RetryInfo" /\ EndsWith(items[1].retryDelay, "s")
    THEN ParseFloat(SubSeq(items[1].retryDelay, 1, Len(items[1].retryDelay) - 1))
    ELSE ScanRetryInfo(Tail(items))

extract_retry_delay(exception) ==
    IF ~exception.details.has_error_details THEN DEFAULT_WAIT_TIME
    ELSE LET found == ScanRetryInfo(exception.details.items)
         IN IF found < 0 THEN DEFAULT_WAIT_TIME ELSE found

\* a wait that takes the suggested delay of any failure
wait_api_limit_AnyFailure(exception) == extract_retry_delay(exception)

wait_api_limit(exception) ==
    IF exception.cls = "ClientError" /\ exception.code = 429
    THEN extract_retry_delay(exception)
    ELSE DEFAULT_WAIT_TIME

\* a stop that lets one attempt more through
stop_after_attempt_OneMore(attempt, max_attempt_number) ==
    attempt >= max_attempt_number + 1

\* tenacity: stop_after_attempt(max_attempt_number)
stop_after_attempt(attempt, max_attempt_number) == attempt >= max_attempt_number

\* the decorator of _generate_subtitles without reraise: giving up raises a
\* RetryError around the last failure
GenerateDecision_NoReraise(exception, attempt) ==
    LET retry == retry_handler(exception)
    IN IF retry.raised # "none"
       THEN [do |-> "raise", exc |-> Exc(retry.raised, 0, NoDetails, retry.value[1], 0)]
       ELSE IF ~retry.value THEN [do |-> "raise", exc |-> exception]
       ELSE IF stop_after_attempt(attempt, MaxAttempts)
       THEN [do |-> "raise", exc |-> Exc("RetryError", 0, NoDetails, exception.why, 0)]
       ELSE [do |-> "wait", exc |-> exception]

\* tenacity on _generate_subtitles after a failed attempt: "wait" before
\* another attempt, or "raise" (reraise = True: the attempt's own exception;
\* an exception of the predicate itself goes up as it is)
GenerateDecision(exception, attempt) ==
    LET retry == retry_handler(exception)
    IN IF retry.raised # "none"
       THEN [do |-> "raise", exc |-> Exc(retry.raised, 0, NoDetails, retry.value[1], 0)]
       ELSE IF ~retry.value THEN [do |-> "raise", exc |-> exception]
       ELSE IF stop_after_attempt(attempt, MaxAttempts)
       THEN [do |-> "raise", exc |-> exception]
       ELSE [do |-> "wait", exc |-> exception]

\* tenacity on _audio_to_subtitles for an exception of its body: only a
\* SubtitleValidationException is retried; without reraise, exhaustion raises
\* a RetryError
AudioDecision(exception, gen) ==
    IF exception.cls # "SubtitleValidationException"
    THEN [do |-> "raise", exc |-> exception]
    ELSE IF stop_after_attempt(gen, MaxGenerations)
    THEN [do |-> "raise", exc |-> Exc("RetryError", 0, NoDetails, exception.why, exception.at)]
    ELSE [do |-> "retry", exc |-> exception]

\* what response.parsed may hold: timelines of the chunk
RECURSIVE Timelines(_)
Timelines(n) ==
    IF n = 0 THEN {<<>>}
    ELSE LET shorter == Timelines(n - 1)
         IN shorter \cup
            {Append(t, SubtitleEvent(s, e, <<1, Len(t) + 1>>)) :
                t \in {x \in shorter : Len(x) = n - 1}, s \in Times, e \in Times}

RetryInit ==
    /\ retry_pc = "ATTEMPT"
    /\ attempt_number = 1
    /\ generation = 1
    /\ calls = 0
    /\ last_exc = NoExc
    /\ sleep = 0
    /\ surfaced = NoExc
    /\ transcript = <<>>
    /\ parsed = NoOutcome
    /\ chunk_duration \in DurationNumerators

\* the body of _audio_to_subtitles left with `exception`
AudioBodyRaises(exception) ==
    LET outer == AudioDecision(exception, generation)
    IN IF outer.do = "retry"
       THEN /\ retry_pc' = "ATTEMPT"
            /\ generation' = generation + 1
            /\ attempt_number' = 1
            /\ UNCHANGED surfaced
       ELSE /\ retry_pc' = "FAIL"
            /\ surfaced' = outer.exc
            /\ UNCHANGED <<generation, attempt_number>>

\* generate_content returns: _generate_subtitles returns response.parsed and
\* _audio_to_subtitles validates it against the duration of the chunk
CallReturns ==
    /\ retry_pc = "ATTEMPT"
    /\ calls' = calls + 1
    /\ \E events \in Timelines(MaxCues) :
         LET checked == validate_subtitles(events, chunk_duration)
         IN /\ parsed' = Returned(events)
            /\ IF checked.raised = "none"
               THEN /\ retry_pc' = "DONE"
                    /\ transcript' = events
                    /\ UNCHANGED <<generation, attempt_number, surfaced>>
               ELSE /\ AudioBodyRaises(Exc(checked.raised, 0, NoDetails,
                                           checked.value[1], checked.value[2]))
                    /\ UNCHANGED transcript
    /\ last_exc' = NoExc
    /\ UNCHANGED <<sleep, chunk_duration, merge_vars, dispatch_vars,
                   balance_vars, upload_vars>>

\* generate_content raises
CallRaises ==
    /\ retry_pc = "ATTEMPT"
    /\ calls' = calls + 1
    /\ \E exception \in Errors :
         LET inner == GenerateDecision(exception, attempt_number)
         IN /\ last_exc' = exception
            /\ IF inner.do = "wait"
               THEN /\ retry_pc' = "WAIT"
                    /\ sleep' = wait_api_limit(exception)
                    /\ UNCHANGED <<generation, attempt_number, surfaced>>
               ELSE /\ AudioBodyRaises(inner.exc)
                    /\ UNCHANGED sleep
    /\ parsed' = NoOutcome
    /\ UNCHANGED <<transcript, chunk_duration, merge_vars, dispatch_vars,
                   balance_vars, upload_vars>>

\* tenacity prepares the next attempt (the outcome of the last one is
\* dropped, the attempt number grows) and the sleep ends
Sleep ==
    /\ retry_pc = "WAIT"
    /\ retry_pc' = "ATTEMPT"
    /\ attempt_number' = attempt_number + 1
    /\ last_exc' = NoExc
    /\ UNCHANGED <<generation, calls, sleep, surfaced, transcript, parsed,
                   chunk_duration, merge_vars, dispatch_vars,
                   balance_vars, upload_vars>>

RetryNext == CallReturns \/ CallRaises \/ Sleep

----------------------------------------------------------------------------
(* AISubtitler.transcribe_audio: the chunk is exported and uploaded, the   *)
(* transcription runs inside the upload_audio context, and the context     *)
(* removes the uploaded file when the transcription is left.               *)

\* ref.name of the file the upload returned
UploadedName == "files/chunk"

\* what client.files.delete may do: return, or raise an error of the API
Deletions == {Returned(<<>>), Raised("ClientError", "delete", 0),
              Raised("ServerError", "delete", 0)}

\* a removal that lets the error of the deletion out
_remove_file_Propagates(deletion) == deletion

\* _remove_file: the error of a deletion is logged as a warning, not raised
_remove_file(deletion) == Returned(<<>>)

\* what the body of the with statement of transcribe_audio did
BodyOutcome ==
    IF retry_pc = "DONE" THEN Returned(transcript)
    ELSE Raised(surfaced.cls, surfaced.why, surfaced.at)

\* leaving the with statement: the finally clause runs _remove_file, and
\* what the body did goes on unless the clause itself raised
upload_audio_exit(body, deletion) ==
    LET removal == _remove_file(deletion)
    IN IF removal.raised # "none" THEN removal ELSE body

UploadInit ==
    /\ upload_pc = "EXPORT"
    /\ file_ref = "none"
    /\ delete_calls = 0
    /\ warnings = 0
    /\ transcribe_outcome = NoOutcome

\* segment.export wrote the temporary file
ExportReturns ==
    /\ upload_pc = "EXPORT"
    /\ upload_pc' = "UPLOAD"
    /\ UNCHANGED <<file_ref, delete_calls, warnings, transcribe_outcome,
                   merge_vars, retry_vars, dispatch_vars, balance_vars>>

\* segment.export raised: nothing was uploaded
ExportRaises ==
    /\ upload_pc = "EXPORT"
    /\ upload_pc' = "END"
    /\ transcribe_outcome' = Raised("Exception", "Export failed", 0)
    /\ UNCHANGED <<file_ref, delete_calls, warnings,
                   merge_vars, retry_vars, dispatch_vars, balance_vars>>

\* client.files.upload returned the reference: the body of the with may run
UploadReturns ==
    /\ upload_pc = "UPLOAD"
    /\ upload_pc' = "BODY"
    /\ file_ref' = UploadedName
    /\ UNCHANGED <<delete_calls, warnings, transcribe_outcome,
                   merge_vars, retry_vars, dispatch_vars, balance_vars>>

\* client.files.upload raised: the try of upload_audio was not entered
UploadRaises ==
    /\ upload_pc = "UPLOAD"
    /\ upload_pc' = "END"
    /\ transcribe_outcome' = Raised("Exception", "Upload failed", 0)
    /\ UNCHANGED <<file_ref, delete_calls, warnings,
                   merge_vars, retry_vars, dispatch_vars, balance_vars>>

\* one step of _audio_to_subtitles inside the with statement
Body ==
    /\ upload_pc = "BODY"
    /\ RetryNext

\* the body returned or raised: the finally clause calls _remove_file, which
\* calls client.files.delete once, and the with statement is left
Remove ==
    /\ upload_pc = "BODY"
    /\ retry_pc \in {"DONE", "FAIL"}
    /\ \E deletion \in Deletions :
         /\ delete_calls' = delete_calls + 1
         /\ warnings' = IF deletion.raised # "none" THEN warnings + 1 ELSE warnings
         /\ transcribe_outcome' = upload_audio_exit(BodyOutcome, deletion)
    /\ upload_pc' = "END"
    /\ UNCHANGED <<file_ref, merge_vars, retry_vars, dispatch_vars, balance_vars>>

TranscribeNext ==
    \/ ExportReturns \/ ExportRaises \/ UploadReturns \/ UploadRaises
    \/ Body \/ Remove

----------------------------------------------------------------------------
(* Concurrent dispatch: transcribe_fn mapped over the chunks by a bounded  *)
(* worker pool, the results collected by chunk index.  Calls start in the  *)
(* order of the chunks while a worker is free, end in any order, each      *)
(* with a timeline or a fatal error; the caller takes the results one by   *)
(* one and gets the first fatal error it meets.                            *)

Outcome(kind, value, chunk) == [kind |-> kind, value |-> value, chunk |-> chunk]

\* what the call for a chunk left: the chunk-local timeline or its error
Slot(kind, chunk) == [kind |-> kind, chunk |-> chunk]

NumChunks == Len(chunk_state)
Running == {i \in 1..NumChunks : chunk_state[i] = "running"}

\* the caller takes the results in the order the calls ended
NextFuture_AsCompleted(taken, ended) ==
    IF taken < Len(ended) THEN ended[taken + 1] ELSE 0

\* the caller takes the results in the order of the chunks
NextFuture(taken, ended) == taken + 1

\* a failed chunk is passed over
Take_SwallowFailure(outcome, slot) == outcome

\* the caller takes one result: a timeline joins the list, an error ends
\* the dispatch and nothing is returned
Take(outcome, slot) ==
    IF slot.kind = "timeline"
    THEN Outcome("running", Append(outcome.value, slot), 0)
    ELSE Outcome("raised", <<>>, slot.chunk)

DispatchInit ==
    /\ \E n \in 0..MaxChunks :
         /\ chunk_state = [i \in 1..n |-> "queued"]
         /\ slots = [i \in 1..n |-> Slot("none", i)]
    /\ completed = <<>>
    /\ cursor = 0
    /\ dispatch_outcome = Outcome("running", <<>>, 0)
    /\ worker_count \in 1..MaxWorkers

\* a pool that starts the next queued chunk whether or not a worker is free
Start_NoFreeWorker ==
    /\ \E i \in 1..NumChunks :
         /\ chunk_state[i] = "queued"
         /\ \A k \in 1..(i - 1) : chunk_state[k] # "queued"
         /\ chunk_state' = [chunk_state EXCEPT ![i] = "running"]
    /\ UNCHANGED <<slots, completed, cursor, dispatch_outcome, worker_count,
                   merge_vars, retry_vars,
                   balance_vars, upload_vars>>

\* a free worker takes the next queued chunk
Start ==
    /\ \E i \in 1..NumChunks :
         /\ chunk_state[i] = "queued"
         /\ \A k \in 1..(i - 1) : chunk_state[k] # "queued"
         /\ Cardinality(Running) < worker_count
         /\ chunk_state' = [chunk_state EXCEPT ![i] = "running"]
    /\ UNCHANGED <<slots, completed, cursor, dispatch_outcome, worker_count,
                   merge_vars, retry_vars,
                   balance_vars, upload_vars>>

\* the call for a chunk ends in DONE with its timeline
Complete ==
    /\ \E i \in Running :
         /\ chunk_state' = [chunk_state EXCEPT ![i] = "done"]
         /\ slots' = [slots EXCEPT ![i] = Slot("timeline", i)]
         /\ completed' = Append(completed, i)
    /\ UNCHANGED <<cursor, dispatch_outcome, worker_count, merge_vars, retry_vars,
                   balance_vars, upload_vars>>

\* the call for a chunk ends in FAIL with a fatal error
Fail ==
    /\ \E i \in Running :
         /\ chunk_state' = [chunk_state EXCEPT ![i] = "failed"]
         /\ slots' = [slots EXCEPT ![i] = Slot("error", i)]
         /\ completed' = Append(completed, i)
    /\ UNCHANGED <<cursor, dispatch_outcome, worker_count, merge_vars, retry_vars,
                   balance_vars, upload_vars>>

\* the caller takes the next result; on an error the chunks still queued are
\* cancelled and the calls in flight are left to end
Collect ==
    /\ dispatch_outcome.kind = "running"
    /\ LET i == NextFuture(cursor, completed)
       IN /\ i \in 1..NumChunks
          /\ chunk_state[i] \in {"done", "failed"}
          /\ dispatch_outcome' = Take(dispatch_outcome, slots[i])
    /\ cursor' = cursor + 1
    /\ chunk_state' =
         IF dispatch_outcome'.kind = "raised"
         THEN [i \in 1..NumChunks |->
                 IF chunk_state[i] = "queued" THEN "cancelled" ELSE chunk_state[i]]
         ELSE chunk_state
    /\ UNCHANGED <<slots, completed, worker_count, merge_vars, retry_vars,
                   balance_vars, upload_vars>>

\* every result was taken: the list goes to the caller
Return ==
    /\ dispatch_outcome.kind = "running"
    /\ cursor = NumChunks
    /\ dispatch_outcome' = Outcome("returned", dispatch_outcome.value, 0)
    /\ UNCHANGED <<chunk_state, slots, completed, cursor, worker_count,
                   merge_vars, retry_vars,
                   balance_vars, upload_vars>>

DispatchNext == Start \/ Complete \/ Fail \/ Collect \/ Return

\* an interrupt that leaves the queued chunks in the queue
Abandon_LeaveQueued(state) == state

\* what an interrupt does to a chunk: a queued chunk is cancelled, a call in
\* flight is left behind as it is, an ended call keeps its state
Abandon(state) == IF state = "queued" THEN "cancelled" ELSE state

\* the user interrupts the run while the caller is dispatching: the run ends
\* at once as aborted by the user, with no list and no error of a chunk
Interrupt ==
    /\ dispatch_outcome.kind = "running"
    /\ dispatch_outcome' = Outcome("aborted", <<>>, 0)
    /\ chunk_state' = [i \in 1..NumChunks |-> Abandon(chunk_state[i])]
    /\ UNCHANGED <<slots, completed, cursor, worker_count, merge_vars, retry_vars,
                   balance_vars, upload_vars>>

AbortNext == Start \/ Complete \/ Fail \/ Collect \/ Return \/ Interrupt

----------------------------------------------------------------------------
(* subtitles.py: SubtitleBalancer (balancer.py: SRTBalancer is the same    *)
(* code).  A text is a sequence of characters: "a" stands for a letter,    *)
(* " " for a whitespace, "\\N" for the line break marker of pysubs2 (not   *)
(* a whitespace) and "<i>" for a formatting tag with no whitespace in it.  *)

LineBreak == "\\N"
Atoms == {"a", " ", "\\N", "<i>"}

\* word budgets and smallest durations the balancer is configured with
WordBudgets == {1, 2}
MinDurations == {0, 2}

Max(a, b) == IF a >= b THEN a ELSE b

\* str.split(sep): the parts between the occurrences of sep, empty ones kept
RECURSIVE SplitOn(_, _)
SplitOn(text, sep) ==
    IF text = <<>> THEN << <<>> >>
    ELSE LET rest == SplitOn(Tail(text), sep)
         IN IF Head(text) = sep
            THEN << <<>> >> \o rest
            ELSE << <<Head(text)>> \o rest[1] >> \o Tail(rest)

\* str.split(): the runs of characters that are not whitespace
NonEmpty(part) == part # <<>>
Words(text) == SelectSeq(SplitOn(text, " "), NonEmpty)

\* sep.join(parts)
RECURSIVE Join(_, _)
Join(parts, sep) ==
    IF parts = <<>> THEN <<>>
    ELSE IF Len(parts) = 1 THEN parts[1]
    ELSE parts[1] \o <<sep>> \o Join(Tail(parts), sep)

\* re.sub(r"<[^>]+>", "", text)
NotTag(c) == c # "<i>"
StripTags(text) == SelectSeq(text, NotTag)

\* chunk.replace("\\N", " ")
ReplaceLineBreaks(text) ==
    [n \in 1..Len(text) |-> IF text[n] = LineBreak THEN " " ELSE text[n]]

count_words(text) == Len(Words(StripTags(text)))

\* a first loop that forgets the line that does not fit the chunk it closes
RECURSIVE LinePhase_DropsLine(_, _, _, _, _)
LinePhase_DropsLine(lines, chunks, current_chunk, current_word_count, max_words) ==
    IF lines = <<>>
    THEN IF current_chunk # <<>>
         THEN Append(chunks, Join(current_chunk, LineBreak))
         ELSE chunks
    ELSE LET line == Head(lines)
             line_words == Len(Words(line))
         IN IF current_word_count + line_words > max_words /\ current_chunk # <<>>
            THEN LinePhase_DropsLine(Tail(lines),
                                     Append(chunks, Join(current_chunk, LineBreak)),
                                     <<>>, 0, max_words)
            ELSE LinePhase_DropsLine(Tail(lines), chunks, Append(current_chunk, line),
                                     current_word_count + line_words, max_words)

\* the first loop of split_text_smartly: lines gathered into chunks
RECURSIVE LinePhase(_, _, _, _, _)
LinePhase(lines, chunks, current_chunk, current_word_count, max_words) ==
    IF lines = <<>>
    THEN IF current_chunk # <<>>
         THEN Append(chunks, Join(current_chunk, LineBreak))
         ELSE chunks
    ELSE LET line == Head(lines)
             line_words == Len(Words(line))
         IN IF current_word_count + line_words > max_words /\ current_chunk # <<>>
            THEN LinePhase(Tail(lines),
                           Append(chunks, Join(current_chunk, LineBreak)),
                           <<line>>, line_words, max_words)
            ELSE LinePhase(Tail(lines), chunks, Append(current_chunk, line),
                           current_word_count + line_words, max_words)

\* a word loop that closes a piece one word late
RECURSIVE WordPhase_OneMore(_, _, _, _)
WordPhase_OneMore(words, final_chunks, temp_chunk, max_words) ==
    IF words = <<>>
    THEN IF temp_chunk # <<>>
         THEN Append(final_chunks, Join(temp_chunk, " "))
         ELSE final_chunks
    ELSE IF Len(temp_chunk) > max_words /\ temp_chunk # <<>>
    THEN WordPhase_OneMore(Tail(words), Append(final_chunks, Join(temp_chunk, " ")),
                           <<Head(words)>>, max_words)
    ELSE WordPhase_OneMore(Tail(words), final_chunks,
                           Append(temp_chunk, Head(words)), max_words)

\* the inner loop of the second phase: a chunk split by words
RECURSIVE WordPhase(_, _, _, _)
WordPhase(words, final_chunks, temp_chunk, max_words) ==
    IF words = <<>>
    THEN IF temp_chunk # <<>>
         THEN Append(final_chunks, Join(temp_chunk, " "))
         ELSE final_chunks
    ELSE IF Len(temp_chunk) + 1 > max_words /\ temp_chunk # <<>>
    THEN WordPhase(Tail(words), Append(final_chunks, Join(temp_chunk, " ")),
                   <<Head(words)>>, max_words)
    ELSE WordPhase(Tail(words), final_chunks,
                   Append(temp_chunk, Head(words)), max_words)

\* a second loop that keeps every chunk of the first as it is
FinalChunks_KeepsChunks(chunks, final_chunks, max_words) == final_chunks \o chunks

\* the second loop of split_text_smartly
RECURSIVE FinalChunks(_, _, _)
FinalChunks(chunks, final_chunks, max_words) ==
    IF chunks = <<>> THEN final_chunks
    ELSE LET chunk == Head(chunks)
         IN IF count_words(chunk) <= max_words
            THEN FinalChunks(Tail(chunks), Append(final_chunks, chunk), max_words)
            ELSE FinalChunks(Tail(chunks),
                             WordPhase(Words(ReplaceLineBreaks(chunk)),
                                       final_chunks, <<>>, max_words),
                             max_words)

split_text_smartly(text, max_words) ==
    FinalChunks(LinePhase(SplitOn(text, LineBreak), <<>>, <<>>, 0, max_words),
                <<>>, max_words)

SSAEvent(start, end, text) == [start |-> start, end |-> end, text |-> text]

RECURSIVE WordCounts(_)
WordCounts(text_chunks) ==
    IF text_chunks = <<>> THEN <<>>
    ELSE <<count_words(Head(text_chunks))>> \o WordCounts(Tail(text_chunks))

\* a share of the span rounded to the nearest integer
ProportionalDuration_Rounded(total_duration, chunk_words, total_words) ==
    (2 * total_duration * chunk_words + total_words) \div (2 * total_words)

\* int(total_duration * (chunk_words / total_words)): the share of the span
\* cut down to an integer (the quotient is taken exactly here; Python takes
\* it in floating point)
ProportionalDuration(total_duration, chunk_words, total_words) ==
    (total_duration * chunk_words) \div total_words

\* a loop that leaves the last piece at the end of the cue
RECURSIVE PieceLoop_LastKeepsEnd(_, _, _, _, _, _)
PieceLoop_LastKeepsEnd(line, text_chunks, chunk_word_counts, i, current_start, min_duration) ==
    IF i > Len(text_chunks) THEN <<>>
    ELSE LET computed ==
                 IF i = Len(text_chunks) THEN line.end
                 ELSE current_start
                      + Max(ProportionalDuration(line.end - line.start,
                                                 chunk_word_counts[i],
                                                 SumSeq(chunk_word_counts)),
                            min_duration)
             chunk_end == IF i # Len(text_chunks) /\ computed - current_start < min_duration
                          THEN current_start + min_duration
                          ELSE computed
         IN <<SSAEvent(current_start, chunk_end, text_chunks[i])>>
            \o PieceLoop_LastKeepsEnd(line, text_chunks, chunk_word_counts, i + 1,
                                      chunk_end, min_duration)

\* the loop of balance_subtitles over the pieces of one cue, from piece i on
RECURSIVE PieceLoop(_, _, _, _, _, _)
PieceLoop(line, text_chunks, chunk_word_counts, i, current_start, min_duration) ==
    IF i > Len(text_chunks) THEN <<>>
    ELSE LET computed ==
                 IF i = Len(text_chunks) THEN line.end
                 ELSE current_start
                      + Max(ProportionalDuration(line.end - line.start,
                                                 chunk_word_counts[i],
                                                 SumSeq(chunk_word_counts)),
                            min_duration)
             chunk_end == IF computed - current_start < min_duration
                          THEN current_start + min_duration
                          ELSE computed
         IN <<SSAEvent(current_start, chunk_end, text_chunks[i])>>
            \o PieceLoop(line, text_chunks, chunk_word_counts, i + 1,
                         chunk_end, min_duration)

\* the body of the loop of balance_subtitles: what one cue adds to new_subs
BalanceLine(line, max_words, min_duration) ==
    IF count_words(line.text) <= max_words THEN Returned(<<line>>)
    ELSE LET text_chunks == split_text_smartly(line.text, max_words)
             chunk_word_counts == WordCounts(text_chunks)
         IN IF Len(text_chunks) = 1 THEN Returned(<<line>>)
            ELSE IF Len(text_chunks) > 1 /\ SumSeq(chunk_word_counts) = 0
            THEN Raised("ZeroDivisionError", "division by zero", 0)
            ELSE Returned(PieceLoop(line, text_chunks, chunk_word_counts, 1,
                                    line.start, min_duration))

RECURSIVE balance_subtitles(_, _, _)
balance_subtitles(lines, max_words, min_duration) ==
    IF lines = <<>> THEN Returned(<<>>)
    ELSE LET first == BalanceLine(Head(lines), max_words, min_duration)
             rest == balance_subtitles(Tail(lines), max_words, min_duration)
         IN IF first.raised # "none" THEN first
            ELSE IF rest.raised # "none" THEN rest
            ELSE Returned(first.value \o rest.value)

BalanceInit ==
    /\ subs = <<>>
    /\ new_subs = NoOutcome
    /\ max_words_per_screen \in WordBudgets
    /\ min_duration_ms \in MinDurations
    /\ balance_phase = "build"

\* the timeline gets its first cue
AddLine ==
    /\ balance_phase = "build"
    /\ subs = <<>>
    /\ \E start \in 0..MaxTime, end \in 0..MaxTime :
         /\ start <= end
         /\ subs' = <<SSAEvent(start, end, <<>>)>>
    /\ UNCHANGED <<new_subs, max_words_per_screen, min_duration_ms, balance_phase,
                   merge_vars, retry_vars, dispatch_vars,
                   upload_vars>>

\* the text of the first cue gets one more character
AddAtom ==
    /\ balance_phase = "build"
    /\ Len(subs) = 1
    /\ Len(subs[1].text) < MaxAtoms
    /\ \E c \in Atoms :
         subs' = [subs EXCEPT ![1].text = Append(@, c)]
    /\ UNCHANGED <<new_subs, max_words_per_screen, min_duration_ms, balance_phase,
                   merge_vars, retry_vars, dispatch_vars,
                   upload_vars>>

\* the timeline gets a second cue of one word, which starts no earlier than
\* the first one ends
AddNextLine ==
    /\ balance_phase = "build"
    /\ Len(subs) = 1
    /\ \E start \in subs[1].end..MaxTime :
         subs' = Append(subs, SSAEvent(start, MaxTime, <<"a">>))
    /\ UNCHANGED <<new_subs, max_words_per_screen, min_duration_ms, balance_phase,
                   merge_vars, retry_vars, dispatch_vars,
                   upload_vars>>

Balance ==
    /\ balance_phase = "build"
    /\ new_subs' = balance_subtitles(subs, max_words_per_screen, min_duration_ms)
    /\ balance_phase' = "balanced"
    /\ UNCHANGED <<subs, max_words_per_screen, min_duration_ms,
                   merge_vars, retry_vars, dispatch_vars,
                   upload_vars>>

BalanceNext == AddLine \/ AddAtom \/ AddNextLine \/ Balance

----------------------------------------------------------------------------
RetryIdle ==
    /\ retry_pc = "idle"
    /\ attempt_number = 0
    /\ generation = 0
    /\ calls = 0
    /\ last_exc = NoExc
    /\ sleep = 0
    /\ surfaced = NoExc
    /\ transcript = <<>>
    /\ parsed = NoOutcome
    /\ chunk_duration = 0

DispatchIdle ==
    /\ chunk_state = <<>>
    /\ slots = <<>>
    /\ completed = <<>>
    /\ cursor = 0
    /\ dispatch_outcome = Outcome("idle", <<>>, 0)
    /\ worker_count = 0

BalanceIdle ==
    /\ subs = <<>>
    /\ new_subs = NoOutcome
    /\ max_words_per_screen = 0
    /\ min_duration_ms = 0
    /\ balance_phase = "idle"

UploadIdle ==
    /\ upload_pc = "idle"
    /\ file_ref = "none"
    /\ delete_calls = 0
    /\ warnings = 0
    /\ transcribe_outcome = NoOutcome

MergeSpecInit == MergeInit /\ RetryIdle /\ DispatchIdle /\ BalanceIdle /\ UploadIdle

MergeSpec == MergeSpecInit /\ [][MergeNext]_vars

MergeIdle ==
    /\ subtitle_groups = <<>>
    /\ segment_durations = <<>>
    /\ pre_groups = <<>>
    /\ merge_phase = "idle"
    /\ merge_outcome = NoOutcome
    /\ first_outcome = NoOutcome

RetrySpecInit ==
    RetryInit /\ MergeIdle /\ DispatchIdle /\ BalanceIdle /\ UploadIdle

RetrySpec == RetrySpecInit /\ [][RetryNext]_vars

DispatchSpecInit ==
    DispatchInit /\ MergeIdle /\ RetryIdle /\ BalanceIdle /\ UploadIdle

DispatchSpec == DispatchSpecInit /\ [][DispatchNext]_vars

\* the dispatch of a run the user may interrupt
AbortSpec == DispatchSpecInit /\ [][AbortNext]_vars

BalanceSpecInit ==
    BalanceInit /\ MergeIdle /\ RetryIdle /\ DispatchIdle /\ UploadIdle

BalanceSpec == BalanceSpecInit /\ [][BalanceNext]_vars

TranscribeSpecInit ==
    UploadInit /\ RetryInit /\ MergeIdle /\ DispatchIdle /\ BalanceIdle

\* transcribe_audio for one chunk: upload, transcription, removal
TranscribeSpec == TranscribeSpecInit /\ [][TranscribeNext]_vars

\* the calls are made one after another by one thread: a call returns or
\* raises (the request has a timeout of two minutes) and a sleep ends
RetryLiveSpec == RetrySpecInit /\ [][RetryNext]_vars /\ WF_vars(RetryNext)

----------------------------------------------------------------------------
(* Properties of merge *)

MergeReturned == merge_outcome.raised = "none"
MergeCalled == merge_phase # "build"

\* place in the merged list of cue j of chunk i (both 1-based)
MergedIndex(groups, i, j) == TotalCues(SubSeq(groups, 1, i - 1)) + j

\* floor(sum(durations[0..i))), i being 1-based here
FloorOfSum(durations, i) ==
    SumSeq(SubSeq(durations, 1, i - 1)) \div DurationDenominator

\* sum of floor(duration) over durations[0..i)
RECURSIVE SumOfFloors(_, _)
SumOfFloors(durations, i) ==
    IF i = 1 THEN 0
    ELSE SumOfFloors(durations, i - 1)
         + (durations[i - 1] \div DurationDenominator)

ShiftedBy(offset(_)) ==
    \A i \in 1..Len(pre_groups) : \A j \in 1..Len(pre_groups[i]) :
        LET local == pre_groups[i][j]
            merged == merge_outcome.value[MergedIndex(pre_groups, i, j)]
        IN /\ merged.start = local.start + offset(i)
           /\ merged.end = local.end + offset(i)

\* C1 as stated: when merge returns, cue j of chunk i is shifted by the floor
\* of the sum of the declared durations of the chunks before i.
C1_ShiftIsFloorOfSum ==
    MergeReturned =>
        LET offset(i) == FloorOfSum(segment_durations, i) IN ShiftedBy(offset)

\* C1 amended: when merge returns, cue j of chunk i is shifted by the sum, over
\* the chunks before i, of each declared duration truncated to an integer.
C1_ShiftIsSumOfFloors ==
    MergeReturned =>
        LET offset(i) == SumOfFloors(segment_durations, i) IN ShiftedBy(offset)

\* C1 witness: merge returned a cue of the third chunk, shifted by a non-zero
\* offset that follows two fractional durations.
C1_Witness ==
    /\ MergeReturned
    /\ Len(pre_groups) = 3
    /\ pre_groups[3] # <<>>
    /\ segment_durations[1] % DurationDenominator # 0
    /\ segment_durations[2] % DurationDenominator # 0
    /\ merge_outcome.value[MergedIndex(pre_groups, 3, 1)].start
         > pre_groups[3][1].start

\* every cue has start <= end and starts no earlier than the previous cue's end
NonOverlapping(events) ==
    \A n \in 1..Len(events) :
        /\ events[n].start <= events[n].end
        /\ n > 1 => events[n].start >= events[n - 1].end

\* C2 as stated: a timeline merge returns is non-overlapping and its last cue
\* ends no later than the sum of the chunk durations, taken in the unit in
\* which merge added them to the timestamps.
C2_ReturnedTimelineWithinDurations ==
    MergeReturned =>
        /\ NonOverlapping(merge_outcome.value)
        /\ merge_outcome.value # <<>> =>
             merge_outcome.value[Len(merge_outcome.value)].end * DurationDenominator
                <= SumSeq(segment_durations)

\* C3 as stated: with list lengths that differ, or empty lists, merge raises
\* an error that is not the validation failure and returns nothing.
C3_MismatchIsCallerError ==
    (MergeCalled /\ (\/ Len(pre_groups) # Len(segment_durations)
                     \/ pre_groups = <<>>
                     \/ segment_durations = <<>>))
        => merge_outcome.raised \in {"TypeError", "IndexError"}

----------------------------------------------------------------------------
(* Properties of the retry loops                                           *)

Is429(exception) == exception.cls = "ClientError" /\ exception.code = 429

\* the details of the failure hold a quota violation whose quotaId has `word`
CarriesQuotaId(exception, word) ==
    /\ exception.details.has_error_details
    /\ \E n \in 1..Len(exception.details.items) :
         LET detail == exception.details.items[n]
         IN /\ detail.type = "QuotaFailure"
            /\ detail.has_violations
            /\ \E m \in 1..Len(detail.violations) :
                 /\ detail.violations[m].has_quotaId
                 /\ Contains(detail.violations[m].quotaId, word)

DailyQuota(exception) == Is429(exception) /\ CarriesQuotaId(exception, "PerDay")

AttemptFailed == last_exc # NoExc

\* C6: the last failure, when it is a 429 with a PerDay violation, is
\* classified non-recoverable by is_recoverable_exception and by
\* retry_handler; when it is a 429 with a PerMinute violation in its place, or
\* a server error, both classify it recoverable.
C6_Classification ==
    AttemptFailed =>
        /\ DailyQuota(last_exc) =>
              /\ is_recoverable_exception(last_exc) = Returned(FALSE)
              /\ retry_handler(last_exc) = Returned(FALSE)
        /\ (\/ /\ Is429(last_exc)
               /\ CarriesQuotaId(last_exc, "PerMinute")
               /\ ~CarriesQuotaId(last_exc, "PerDay")
            \/ last_exc.cls = "ServerError") =>
              /\ is_recoverable_exception(last_exc) = Returned(TRUE)
              /\ retry_handler(last_exc) = Returned(TRUE)

\* C7: once an attempt has failed with a daily-quota error the transcription
\* of the chunk has failed with that very error; FAIL is terminal, so no
\* further call follows.
C7_DailyQuotaStopsWithOriginalError ==
    (AttemptFailed /\ DailyQuota(last_exc)) =>
        /\ retry_pc = "FAIL"
        /\ surfaced = last_exc

\* C8 as stated: a failure of the call that is not the daily-quota error
\* never ends the transcription while attempts remain.
C8_EveryOtherFailureIsRetried ==
    (AttemptFailed /\ ~DailyQuota(last_exc) /\ attempt_number < MaxAttempts) =>
        retry_pc # "FAIL"

\* the failures the code documents as retried: every server error, and every
\* client error that is_recoverable_exception returns TRUE for
Accepted(exception) ==
    \/ exception.cls = "ServerError"
    \/ /\ exception.cls = "ClientError"
       /\ is_recoverable_exception(exception) = Returned(TRUE)

\* C8 amended: while attempts remain a failure of the call is retried exactly
\* when it is a server error or a client error classified recoverable (auth
\* errors included); a failure that is neither a client nor a server error
\* ends the transcription at once and is the error surfaced.
C8_AcceptedFailuresAreRetried ==
    (AttemptFailed /\ attempt_number < MaxAttempts) =>
        /\ Accepted(last_exc) <=> retry_pc # "FAIL"
        /\ last_exc.cls \notin {"ClientError", "ServerError"} =>
              /\ retry_pc = "FAIL"
              /\ surfaced = last_exc

\* an auth error was retried and a failure that is no API error was not
C8_Witness ==
    /\ retry_pc = "FAIL"
    /\ last_exc.cls = "Exception"
    /\ surfaced = last_exc
    /\ attempt_number = 2

\* the delays a RetryInfo entry of the failure suggests in a text that parses
SuggestedDelays(exception) ==
    IF ~exception.details.has_error_details THEN {}
    ELSE {ParseFloat(SubSeq(d, 1, Len(d) - 1)) :
            d \in {exception.details.items[n].retryDelay :
                     n \in {k \in 1..Len(exception.details.items) :
                              /\ exception.details.items[k].type = "RetryInfo"
                              /\ EndsWith(exception.details.items[k].retryDelay, "s")}}}
         \ {-1}

FirstRetryInfo(exception) ==
    LET S == {n \in 1..Len(exception.details.items) :
                /\ exception.details.items[n].type = "RetryInfo"
                /\ EndsWith(exception.details.items[n].retryDelay, "s")}
    IN IF S = {} THEN 0 ELSE CHOOSE n \in S : \A k \in S : n <= k

C10_WithinBudget ==
    /\ attempt_number \in 1..MaxAttempts
    /\ generation \in 1..MaxGenerations
    /\ calls <= (generation - 1) * MaxAttempts + attempt_number
    /\ calls <= MaxAttempts * MaxGenerations

\* C10: the transcription of a chunk ends in DONE or FAIL, and at every
\* moment the attempt of the generation is at most 30, the generation at most
\* 50 and the calls made at most 30 x 50.
C10_TerminatesWithinBudget ==
    /\ []C10_WithinBudget
    /\ <>(retry_pc \in {"DONE", "FAIL"})

\* the budget of attempts is used up: the 30th call failed and ended it
C10_Witness ==
    /\ retry_pc = "FAIL"
    /\ attempt_number = MaxAttempts
    /\ calls = MaxAttempts
    /\ last_exc.cls = "ServerError"
    /\ surfaced = last_exc

----------------------------------------------------------------------------
(* Properties of the dispatch *)

\* C4: the list the caller holds, while it grows and when it is returned,
\* has at position i the timeline of chunk i, whatever the order in which the
\* calls ended and whatever the size of the pool.
C4_ResultsInChunkOrder ==
    /\ \A k \in 1..Len(dispatch_outcome.value) :
         dispatch_outcome.value[k] = Slot("timeline", k)
    /\ dispatch_outcome.kind = "returned" =>
         Len(dispatch_outcome.value) = NumChunks

\* three chunks over two workers, the second chunk ended last
C4_Witness ==
    /\ dispatch_outcome.kind = "returned"
    /\ NumChunks = 3
    /\ worker_count = 2
    /\ completed = <<1, 3, 2>>

\* C5: the caller gets a list only when every chunk ended in DONE, and then
\* one timeline for every chunk; otherwise it gets the error of a chunk that
\* failed and no list.
C5_AllOrFatalError ==
    /\ dispatch_outcome.kind \in {"running", "returned", "raised"}
    /\ dispatch_outcome.kind = "returned" =>
         /\ Len(dispatch_outcome.value) = NumChunks
         /\ \A i \in 1..NumChunks : chunk_state[i] = "done"
    /\ dispatch_outcome.kind = "raised" =>
         /\ dispatch_outcome.value = <<>>
         /\ dispatch_outcome.chunk \in 1..NumChunks
         /\ chunk_state[dispatch_outcome.chunk] = "failed"

\* the second chunk failed after the timeline of the first was taken
C5_Witness ==
    /\ dispatch_outcome.kind = "raised"
    /\ dispatch_outcome.chunk = 2
    /\ cursor = 2
    /\ chunk_state[1] = "done"

----------------------------------------------------------------------------
(* Properties of what reaches the caller of the transcription *)

\* the last call returned a response
CallReturned == parsed.raised = "none"

\* the exception validate_subtitles raised for the response of the last call
ValidationFailure ==
    LET checked == validate_subtitles(parsed.value, chunk_duration)
    IN Exc(checked.raised, 0, NoDetails, checked.value[1], checked.value[2])

WithinDuration(events, duration) ==
    events # <<>> =>
        events[Len(events)].end * DurationDenominator <= duration * MsPerSecond

NoInvertedCue(events) ==
    \A i \in 1..Len(events) : events[i].start <= events[i].end

WellFormed(events, duration) ==
    /\ WithinDuration(events, duration)
    /\ NoInvertedCue(events)
    /\ NonOverlapping(events)

\* C12: when the cues of the response violate the timeline invariants
\* against the duration of the chunk and generations remain, the chunk is
\* generated again instead of failing; and a cue list is returned only if it
\* satisfies the invariants.
C12_InvalidCuesAreRegenerated ==
    /\ (/\ CallReturned
        /\ parsed.value # <<>>
        /\ ~WellFormed(parsed.value, chunk_duration)
        /\ generation < MaxGenerations) => retry_pc # "FAIL"
    /\ retry_pc = "DONE" => WellFormed(transcript, chunk_duration)

\* C13: for a non-empty response, validate_subtitles returns without error
\* exactly when the last cue ends within duration x 1000, no cue starts
\* after its end, and every cue after the first starts at or after the end of
\* the cue before it; the transcription is DONE exactly then.
C13_ValidateAcceptsExactlyWellFormed ==
    (CallReturned /\ parsed.value # <<>>) =>
        LET accepted == validate_subtitles(parsed.value, chunk_duration).raised = "none"
            last == parsed.value[Len(parsed.value)]
        IN /\ accepted <=>
                /\ last.end * DurationDenominator <= chunk_duration * MsPerSecond
                /\ \A i \in 1..Len(parsed.value) :
                     parsed.value[i].start <= parsed.value[i].end
                /\ \A i \in 2..Len(parsed.value) :
                     parsed.value[i].start >= parsed.value[i - 1].end
           /\ accepted <=> retry_pc = "DONE"

\* two adjacent cues were accepted: the second starts where the first ends
C13_Witness ==
    /\ retry_pc = "DONE"
    /\ Len(transcript) = 2
    /\ transcript[1].end = 1
    /\ transcript[2].start = transcript[1].end

\* C14: validate_subtitles applied to an empty response returns without
\* raising, whatever the duration, and the transcription is DONE with no cue.
C14_EmptyListIsValid ==
    (CallReturned /\ parsed.value = <<>>) =>
        /\ validate_subtitles(parsed.value, chunk_duration).raised = "none"
        /\ retry_pc = "DONE"

\* C15: every failure validate_subtitles reports for a non-empty response
\* (end past the duration, inverted cue, overlap) is a
\* SubtitleValidationException.
C15_ValidationFailureIsTyped ==
    (CallReturned /\ parsed.value # <<>>) =>
        validate_subtitles(parsed.value, chunk_duration).raised
            \in {"none", "SubtitleValidationException"}

Balanced == balance_phase = "balanced" /\ new_subs.raised = "none"

\* the cue is a cue of the input that split_text_smartly returns in one piece
KeptUnsplit(event) ==
    /\ \E j \in 1..Len(subs) : subs[j] = event
    /\ Len(split_text_smartly(event.text, max_words_per_screen)) = 1

\* C16: every cue of the output of balance_subtitles has at most
\* max_words_per_screen words, except a cue of the input for which
\* split_text_smartly returned a single piece, which is kept unchanged.
C16_WordBudget ==
    Balanced =>
        \A i \in 1..Len(new_subs.value) :
            \/ count_words(new_subs.value[i].text) <= max_words_per_screen
            \/ KeptUnsplit(new_subs.value[i])

\* a cue of three words was cut word by word into pieces within the budget
C16_Witness ==
    /\ Balanced
    /\ Len(subs) = 1
    /\ subs[1].text = <<"a", " ", "a", " ", "a">>
    /\ max_words_per_screen = 2
    /\ Len(new_subs.value) = 2
    /\ count_words(new_subs.value[1].text) = 2
    /\ count_words(new_subs.value[2].text) = 1

\* the exception of C16 happens: a cue over the budget is kept as it is
C16_FallbackKept ==
    /\ Balanced
    /\ \E i \in 1..Len(new_subs.value) :
         /\ count_words(new_subs.value[i].text) > max_words_per_screen
         /\ KeptUnsplit(new_subs.value[i])

\* the pieces split_text_smartly cuts the first cue of the input into
Pieces == split_text_smartly(subs[1].text, max_words_per_screen)

\* balance_subtitles replaced the first cue of the input by two or more
\* pieces, which are the first cues of the output
FirstCueSplit ==
    /\ Balanced
    /\ subs # <<>>
    /\ count_words(subs[1].text) > max_words_per_screen
    /\ Len(Pieces) >= 2

LastPiece == new_subs.value[Len(Pieces)]

\* C17: the last piece of a split cue ends exactly at the end of the
\* original cue, whatever the span, the words and min_duration_ms.
C17_LastPieceEndsAtOriginalEnd ==
    FirstCueSplit => LastPiece.end = subs[1].end

\* C17 (amended): the last piece of a split cue ends at the end of the
\* original cue when at least min_duration_ms remain from its start to that
\* end, and at its start plus min_duration_ms otherwise.
C17_LastPieceEndsAtOriginalEndOrFloor ==
    FirstCueSplit =>
        LastPiece.end = IF subs[1].end - LastPiece.start >= min_duration_ms
                        THEN subs[1].end
                        ELSE LastPiece.start + min_duration_ms

\* the last piece of a split cue was pushed past the end of the original cue
C17_Witness ==
    /\ FirstCueSplit
    /\ min_duration_ms = 2
    /\ subs[1].end = 2
    /\ LastPiece.start = 2
    /\ LastPiece.end = 4

\* r is an integer nearest to numerator / denominator
Nearest(r, numerator, denominator) ==
    /\ 2 * (r * denominator - numerator) <= denominator
    /\ 2 * (numerator - r * denominator) <= denominator

\* the first piece starts where the cue starts and each later piece starts
\* where the piece before it ends
Contiguous ==
    /\ new_subs.value[1].start = subs[1].start
    /\ \A i \in 2..Len(Pieces) :
         new_subs.value[i].start = new_subs.value[i - 1].end

\* C18: the pieces of a split cue are contiguous from the start of the cue
\* and every piece but the last lasts
\* max(round((E-S) * w_i / W), min_duration_ms), round being rounding to the
\* nearest integer.
C18_DurationsAreRounded ==
    FirstCueSplit =>
        LET w == WordCounts(Pieces)
            W == SumSeq(w)
            D == subs[1].end - subs[1].start
        IN /\ Contiguous
           /\ \A i \in 1..(Len(Pieces) - 1) :
                \E r \in 0..D :
                    /\ Nearest(r, D * w[i], W)
                    /\ new_subs.value[i].end - new_subs.value[i].start
                         = Max(r, min_duration_ms)

\* C18 (amended): the pieces of a split cue are contiguous from the start of
\* the cue and every piece but the last lasts
\* max(int((E-S) * w_i / W), min_duration_ms), int dropping the fractional
\* part.
C18_DurationsAreTruncated ==
    FirstCueSplit =>
        LET w == WordCounts(Pieces)
            W == SumSeq(w)
            D == subs[1].end - subs[1].start
        IN /\ Contiguous
           /\ \A i \in 1..(Len(Pieces) - 1) :
                \E r \in 0..D :
                    /\ r * W <= D * w[i]
                    /\ D * w[i] < (r + 1) * W
                    /\ new_subs.value[i].end - new_subs.value[i].start
                         = Max(r, min_duration_ms)

\* two of three words over a span of 1 ms: the share 0.67 was cut to 0
C18_Witness ==
    /\ FirstCueSplit
    /\ subs[1].text = <<"a", " ", "a", " ", "a">>
    /\ subs[1].start = 0
    /\ subs[1].end = 1
    /\ max_words_per_screen = 2
    /\ min_duration_ms = 0
    /\ new_subs.value[1].end = 0
    /\ new_subs.value[2].end = 1

\* C19: when merge returns, it returns exactly the cues of all chunks, chunk
\* by chunk in the order of the chunks and inside a chunk in their order:
\* as many cues as the chunks hold, each with its text and its end - start.
C19_MergeKeepsEveryCueInOrder ==
    MergeReturned =>
        /\ Len(merge_outcome.value) = TotalCues(pre_groups)
        /\ \A i \in 1..Len(pre_groups) : \A j \in 1..Len(pre_groups[i]) :
             LET local == pre_groups[i][j]
                 merged == merge_outcome.value[MergedIndex(pre_groups, i, j)]
             IN /\ merged.text = local.text
                /\ merged.end - merged.start = local.end - local.start

\* merge returned the cue of the first chunk followed by the cue of a later
\* chunk, the later one moved in time and as long as before
C19_Witness ==
    /\ MergeReturned
    /\ Len(merge_outcome.value) = 2
    /\ \E i \in 2..Len(pre_groups) :
         /\ Len(pre_groups[1]) = 1
         /\ Len(pre_groups[i]) = 1
         /\ pre_groups[i][1].end > pre_groups[i][1].start
         /\ merge_outcome.value[1].text = pre_groups[1][1].text
         /\ merge_outcome.value[2].text = pre_groups[i][1].text
         /\ merge_outcome.value[2].start > pre_groups[i][1].start

----------------------------------------------------------------------------
(* Properties of a run the user interrupts *)

Aborted == dispatch_outcome.kind = "aborted"

\* the step in which the user interrupts the run
Aborts == dispatch_outcome.kind = "running" /\ dispatch_outcome'.kind = "aborted"

\* C20: an interrupt during the dispatch ends the run as aborted by the user,
\* which is neither a list nor the error of a chunk; the step that aborts
\* does not wait for a call in flight to end; and once the run is aborted its
\* outcome stays and no chunk is started.
C20_InterruptAbortsAtOnce ==
    [][/\ Aborts =>
            /\ dispatch_outcome'.kind \notin {"returned", "raised"}
            /\ dispatch_outcome'.value = <<>>
            /\ \A i \in Running : chunk_state'[i] = "running"
            /\ completed' = completed
       /\ Aborted =>
            /\ dispatch_outcome' = dispatch_outcome
            /\ \A i \in 1..NumChunks :
                 chunk_state'[i] = "running" => chunk_state[i] = "running"]_vars

\* the run was aborted with a call in flight, a chunk that was still queued
\* and a worker that was free to take it
C20_Witness ==
    /\ Aborted
    /\ NumChunks = 3
    /\ worker_count = 2
    /\ chunk_state = <<"done", "running", "cancelled">>

----------------------------------------------------------------------------
(* Further properties of merge *)

\* C22: when merge returns, the start and the end of every cue of chunk i
\* moved by the same offset, the sum over the chunks before i of each
\* declared duration truncated to an integer; the cues of the chunks play no
\* part in it, so a chunk without cues, or one whose cues end before its
\* declared duration, moves the next chunk by its whole declared duration.
C22_OffsetFromDeclaredDurationsOnly ==
    MergeReturned =>
        \A i \in 1..Len(pre_groups) : \A j \in 1..Len(pre_groups[i]) :
            LET local == pre_groups[i][j]
                merged == merge_outcome.value[MergedIndex(pre_groups, i, j)]
                truncated == [k \in 1..(i - 1) |->
                                segment_durations[k] \div DurationDenominator]
            IN /\ merged.start - local.start = SumSeq(truncated)
               /\ merged.end - local.end = SumSeq(truncated)

\* the second chunk has no cue and the cue of the first ends before the
\* declared duration of its chunk; the cue of the third chunk moved by the
\* declared durations of both
C22_Witness ==
    /\ MergeReturned
    /\ Len(pre_groups) = 3
    /\ pre_groups[1] # <<>>
    /\ pre_groups[2] = <<>>
    /\ pre_groups[3] # <<>>
    /\ pre_groups[1][1].end = 0
    /\ segment_durations[1] = 3
    /\ segment_durations[2] = 3
    /\ merge_outcome.value[2].start = pre_groups[3][1].start + 2

\* C23: merge leaves its inputs as they were: after a call that returned or
\* raised, the cues the caller holds have the start and end they had before
\* the call, and a second merge of the same objects gives what the first gave.
C23_MergeLeavesInputsUnchanged ==
    /\ MergeCalled => subtitle_groups = pre_groups
    /\ merge_phase = "remerged" => merge_outcome = first_outcome

----------------------------------------------------------------------------
(* Further properties of validate_subtitles *)

Inverted(events, i) == events[i].start > events[i].end
Overlaps(events, i) == i > 1 /\ events[i].start < events[i - 1].end

\* C24: for a non-empty response validate_subtitles reports the first
\* violation in rule order: the bounds failure when the last cue ends past
\* the duration; otherwise the failure of the cue of smallest index that is
\* inverted or starts before the end of the cue before it, naming that index
\* (counted from 0); and no failure when there is no such cue.
C24_FirstViolationInRuleOrder ==
    (CallReturned /\ parsed.value # <<>>) =>
        LET events == parsed.value
            checked == validate_subtitles(events, chunk_duration)
            last == events[Len(events)]
            Broken == {i \in 1..Len(events) :
                          Inverted(events, i) \/ Overlaps(events, i)}
        IN IF last.end * DurationDenominator > chunk_duration * MsPerSecond
           THEN checked.raised # "none" /\ checked.value[1] = "ends after"
           ELSE IF Broken # {}
           THEN /\ checked.raised # "none"
                /\ checked.value[2] + 1 \in Broken
                /\ \A k \in Broken : checked.value[2] + 1 <= k
                /\ checked.value[1] =
                     IF Inverted(events, checked.value[2] + 1)
                     THEN "starts after its end" ELSE "overlaps"
           ELSE checked.raised = "none"

\* both cues of the response are inverted and the failure that reached the
\* caller names the first of them
C24_Witness ==
    /\ CallReturned
    /\ Len(parsed.value) = 2
    /\ Inverted(parsed.value, 1)
    /\ Inverted(parsed.value, 2)
    /\ retry_pc = "FAIL"
    /\ surfaced.why = "starts after its end"
    /\ surfaced.at = 0

----------------------------------------------------------------------------
(* Further properties of the classification of failures *)

\* C26: classifying the failure of a call is total: is_recoverable_exception
\* and retry_handler return a boolean for it whatever the shape of its
\* details, and the failure that reaches the caller is never an error raised
\* by the classification itself.
C26_ClassificationIsTotal ==
    /\ last_exc # NoExc =>
         /\ retry_handler(last_exc).raised = "none"
         /\ last_exc.cls = "ClientError" =>
              is_recoverable_exception(last_exc).raised = "none"
    /\ retry_pc = "FAIL" => surfaced.cls \notin {"KeyError", "TypeError"}

----------------------------------------------------------------------------
(* Further properties of the balancer *)

\* the last piece of the first cue was pushed past the end of that cue
LastPiecePushed == FirstCueSplit /\ LastPiece.end > subs[1].end

\* C27: the output of balance_subtitles for a timeline without overlap is
\* without overlap: every cue has start <= end and starts no earlier than
\* the end of the cue before it, the boundary between the last piece of a
\* split cue and the next cue included.
C27_BalanceKeepsNonOverlap ==
    (Balanced /\ NonOverlapping(subs)) => NonOverlapping(new_subs.value)

\* C27 (amended): in the output of balance_subtitles for a timeline without
\* overlap every cue has start <= end, and a cue starts before the end of the
\* cue before it only when that cue is the last piece of a split cue and was
\* pushed past the end of the split cue to last min_duration_ms.
C27_OverlapOnlyAfterPushedLastPiece ==
    (Balanced /\ NonOverlapping(subs)) =>
        \A n \in 1..Len(new_subs.value) :
            /\ new_subs.value[n].start <= new_subs.value[n].end
            /\ n > 1 =>
                 \/ new_subs.value[n].start >= new_subs.value[n - 1].end
                 \/ LastPiecePushed /\ n - 1 = Len(Pieces)

\* the last piece of a split cue ends after the start of the cue that
\* follows it
C27_Witness ==
    /\ LastPiecePushed
    /\ Len(subs) = 2
    /\ Len(new_subs.value) = Len(Pieces) + 1
    /\ new_subs.value[Len(Pieces) + 1] = subs[2]
    /\ subs[2].start < LastPiece.end

\* the words of a text, line breaks aside: what is left between whitespace
\* and line-break markers
WordsOf(text) ==
    LET Spaced == [n \in 1..Len(text) |-> IF text[n] = "\\N" THEN " " ELSE text[n]]
        RECURSIVE Runs(_, _)
        Runs(rest, run) ==
            IF rest = <<>> THEN (IF run = <<>> THEN <<>> ELSE <<run>>)
            ELSE IF Head(rest) = " "
            THEN (IF run = <<>> THEN <<>> ELSE <<run>>) \o Runs(Tail(rest), <<>>)
            ELSE Runs(Tail(rest), Append(run, Head(rest)))
    IN Runs(Spaced, <<>>)

\* the words of the first n cues of the output, in order
RECURSIVE WordsOfOutput(_)
WordsOfOutput(n) ==
    IF n = 0 THEN <<>>
    ELSE WordsOfOutput(n - 1) \o WordsOf(new_subs.value[n].text)

\* C28: the words of the pieces of a split cue, taken in the order of the
\* output, are the words of the text of the cue (line breaks aside): none is
\* dropped, repeated or moved, in the line phase and in the word phase.
C28_SplitKeepsTheWords ==
    FirstCueSplit => WordsOfOutput(Len(Pieces)) = WordsOf(subs[1].text)

\* a cue of two lines was cut at the line break and the longer line was cut
\* again by words
C28_Witness ==
    /\ FirstCueSplit
    /\ subs[1].text = <<"a", "\\N", "a", " ", "a">>
    /\ max_words_per_screen = 1
    /\ Len(new_subs.value) >= 3
    /\ new_subs.value[1].text = <<"a">>
    /\ new_subs.value[2].text = <<"a">>
    /\ new_subs.value[3].text = <<"a">>

\* C29: every piece of a split cue holds at least one word: no cue with an
\* empty or whitespace-only text comes out of balance_subtitles unless it was
\* a cue of the input.
C29_NoEmptyPiece ==
    FirstCueSplit =>
        \A i \in 1..Len(Pieces) :
            /\ count_words(new_subs.value[i].text) >= 1
            /\ WordsOf(new_subs.value[i].text) # <<>>

\* the text has more words than the budget, by the count of count_words and
\* also when its line-break markers are read as whitespace (tags stripped)
OverBudget(text) ==
    /\ count_words(text) > max_words_per_screen
    /\ Len(WordsOf(StripTags(text))) > max_words_per_screen

\* C30: with a budget of at least one word every cue over the budget is cut
\* into two pieces or more, the cue is never kept for want of a split, every
\* cue of the output is within the budget, and balancing the output again
\* gives the output.
C30_OverBudgetAlwaysSplits ==
    (Balanced /\ max_words_per_screen >= 1) =>
        /\ \A i \in 1..Len(subs) :
             count_words(subs[i].text) > max_words_per_screen =>
                Len(split_text_smartly(subs[i].text, max_words_per_screen)) >= 2
        /\ \A n \in 1..Len(new_subs.value) :
             count_words(new_subs.value[n].text) <= max_words_per_screen
        /\ balance_subtitles(new_subs.value, max_words_per_screen, min_duration_ms)
             = Returned(new_subs.value)

\* C30 (amended): with a budget of at least one word a cue over the budget
\* whose text also holds more words than the budget once its line-break
\* markers are read as whitespace is replaced by two pieces or more; and
\* balancing the output again gives the output.
C30_SplitsWhenWordsExceedBudget ==
    (Balanced /\ max_words_per_screen >= 1 /\ subs # <<>>) =>
        /\ OverBudget(subs[1].text) =>
             /\ Len(new_subs.value) >= 2
             /\ new_subs.value[1].text # subs[1].text
        /\ balance_subtitles(new_subs.value, max_words_per_screen, min_duration_ms)
             = Returned(new_subs.value)

\* a cue of three words was cut for a budget of two, and the pieces are kept
\* when balanced again
C30_Witness ==
    /\ Balanced
    /\ Len(subs) = 1
    /\ max_words_per_screen = 2
    /\ OverBudget(subs[1].text)
    /\ Len(WordsOf(subs[1].text)) = 3
    /\ Len(new_subs.value) = 2
    /\ balance_subtitles(new_subs.value, max_words_per_screen, min_duration_ms)
         = Returned(new_subs.value)

----------------------------------------------------------------------------
(* Properties of the uploaded file *)

Uploaded == file_ref # "none"
BodyFinished == retry_pc \in {"DONE", "FAIL"}
Left == upload_pc = "END"

\* C21: when the upload succeeded, client.files.delete is called exactly once
\* by the time transcribe_audio is left and never before the transcription
\* returned or raised; transcribe_audio then gives what the transcription
\* gave, whether or not the deletion failed; and when the export or the
\* upload failed no deletion is attempted.
C21_UploadRemovedOnce ==
    /\ delete_calls <= 1
    /\ delete_calls = 1 => Uploaded /\ BodyFinished
    /\ (Left /\ Uploaded) =>
         /\ delete_calls = 1
         /\ transcribe_outcome = BodyOutcome
    /\ (Left /\ ~Uploaded) =>
         /\ delete_calls = 0
         /\ transcribe_outcome.raised = "Exception"
    /\ ~Left => transcribe_outcome = NoOutcome

\* the transcription failed, the deletion failed too, and the caller got the
\* failure of the transcription
C21_Witness ==
    /\ Left
    /\ Uploaded
    /\ retry_pc = "FAIL"
    /\ surfaced.cls = "ServerError"
    /\ delete_calls = 1
    /\ warnings = 1
    /\ transcribe_outcome.raised = "ServerError"
    /\ transcribe_outcome.value[1] # "delete"

----------------------------------------------------------------------------
(* Properties of the worker pool *)

\* C25: at most worker_count chunks are being transcribed at any moment; a
\* chunk is started only from the queue, so it is never transcribed twice;
\* its slot of the result collection is written only in the step that ends
\* its own call; and the caller has taken only results of calls that ended.
C25_BoundedPoolExclusiveChunks ==
    /\ [](/\ Cardinality(Running) <= worker_count
          /\ \A i \in 1..NumChunks :
               /\ chunk_state[i] \in {"queued", "running"} => slots[i].kind = "none"
               /\ i <= cursor => /\ chunk_state[i] \in {"done", "failed"}
                                 /\ slots[i].kind # "none")
    /\ [][\A i \in 1..NumChunks :
            /\ (chunk_state'[i] = "running" /\ chunk_state[i] # "running")
                  => chunk_state[i] = "queued"
            /\ slots'[i] # slots[i]
                  => /\ chunk_state[i] = "running"
                     /\ chunk_state'[i] \in {"done", "failed"}
                     /\ \A k \in 1..NumChunks : k # i => slots'[k] = slots[k]]_vars

\* both workers are busy and the third chunk waits in the queue
C25_Witness ==
    /\ worker_count = 2
    /\ chunk_state = <<"running", "running", "queued">>

============================================================================
